---- MODULE Spec2Model ----
(***************************************************************************)
(* Model of the MCP host of jsb17/mcp: the LangGraph agent of              *)
(* src/mcp_host (plan_tools -> execute_tools -> generate_answer, driven by *)
(* MCPAgent.run_query) and the ThreadSafeMCPWrapper that owns the provider *)
(* sessions on one worker thread.                                          *)
(*                                                                         *)
(* Three specifications share the variables:                               *)
(*   Spec         one agent whose wrapper has been initialized, serving    *)
(*                run_query calls one after another;                       *)
(*   SpecWrapper  the wrapper alone, called concurrently by several        *)
(*                callers (initialize / execute_tool / cleanup);           *)
(*   SpecMemory   the memory provider of src/mcp_server/server_memory.py,  *)
(*                serving save_message / get_messages / search_messages.   *)
(*                                                                         *)
(* Python values are records tagged by the field t, so that values of      *)
(* different shapes can be compared.  Texts that the code only passes      *)
(* around are labels; texts that the code parses keep their structure.     *)
(***************************************************************************)
EXTENDS Naturals, Sequences, FiniteSets

VARIABLES
    \* ---- MCPAgent.run_query and the graph nodes (Spec) ----
    pc,                 \* position of the run inside run_query / the graph
    state,              \* the AgentState mapping of the current run
    cleaned_response,   \* plan_tools_node: local cleaned_response
    call_idx,           \* execute_tools_node: position of `for call in tool_calls`
    executed_results,   \* execute_tools_node: local list executed_results
    memory,             \* execute_tools_node: local lookup table memory
    raised,             \* the exception that left run_query, or NoException
    visited,            \* graph nodes that have run in this run, in order
    llm_requests,       \* chat-completion requests sent in this run, in order
    provider_calls,     \* tool calls that reached a provider in this run, in order
    \* ---- ThreadSafeMCPWrapper (both specifications) ----
    initialized,        \* self._initialized
    loop,               \* self.loop: 0 is None, otherwise the id of an event loop
    closed_loops,       \* event loops on which close() has been called
    server_sessions,    \* self.server_sessions: server -> loop that opened it, 0 absent
    all_tools,          \* self.all_tools: sequence of tool descriptors
    executor_shutdown,  \* self.executor has been shut down
    work_queue,         \* functions submitted to self.executor, not yet started
    running,            \* functions being run by the executor's worker threads
    caller,             \* per caller: the call it is in and how it ended
    opens,              \* per server: sessions opened (session.__aenter__ returned)
    inits_submitted,    \* _init_in_thread functions submitted so far
    \* ---- the memory provider, server_memory.py (SpecMemory) ----
    memory_storage,     \* module global memory_storage: session_id -> messages
    now,                \* requests handled so far; the reading of datetime.now()
    last_call,          \* the latest tool request the provider handled
    last_result,        \* what that request returned
    \* ---- the SQL provider, server_oracle-db.py (SpecOracle) ----
    open_connections,   \* connections opened by get_connection() and not closed
    db_executed,        \* statements the database ran for execute_sql, in order
    sql_calls,          \* tool requests the SQL provider has handled
    sql_call,           \* the latest tool request the SQL provider handled
    sql_result          \* what that request returned, or the exception it raised

runVars == <<pc, state, cleaned_response, call_idx, executed_results, memory,
             raised, visited, llm_requests, provider_calls>>

wrapperVars == <<initialized, loop, closed_loops, server_sessions, all_tools,
                 executor_shutdown, work_queue, running, caller, opens,
                 inits_submitted>>

memoryVars == <<memory_storage, now, last_call, last_result>>

oracleVars == <<open_connections, db_executed, sql_calls, sql_call, sql_result>>

vars == <<pc, state, cleaned_response, call_idx, executed_results, memory,
          raised, visited, llm_requests, provider_calls,
          initialized, loop, closed_loops, server_sessions, all_tools,
          executor_shutdown, work_queue, running, caller, opens,
          inits_submitted, memory_storage, now, last_call, last_result,
          open_connections, db_executed, sql_calls, sql_call, sql_result>>

(***************************************************************************)
(* Bounds of the model.                                                    *)
(***************************************************************************)
MaxPlanLen == 2      \* plans of every shape up to this length (plus ScenarioPlans)
NumCallers == 2      \* concurrent callers of the wrapper
MaxInits == 2        \* initialize() calls that get as far as the executor
MaxRequests == 3     \* tool requests handled by the memory provider
MaxLimit == 2        \* explicit limit arguments 0..MaxLimit, besides None and the default

(***************************************************************************)
(* Python values.                                                          *)
(***************************************************************************)
Absent == [t |-> "absent"]                  \* key not in a mapping / None
Str(s) == [t |-> "str", s |-> s]            \* a text that is not JSON
EmptyStr == Str("")
EmptyMapping == [t |-> "dict_empty"]        \* the Python dict {}

\* Strings built by ThreadSafeMCPWrapper.execute_tool in place of a tool output.
NotInitializedMarker == [t |-> "marker_uninitialized"]
TimeoutMarker(tool_name) == [t |-> "marker_timeout", tool |-> tool_name]
ErrorMarker == [t |-> "marker_error"]
NotFoundMarker(tool_name) == [t |-> "marker_notfound", tool |-> tool_name]

IsMarker(v) == v.t \in {"marker_uninitialized", "marker_timeout", "marker_error",
                        "marker_notfound"}
IsTimeoutOrErrorMarker(v) == v.t \in {"marker_timeout", "marker_error"}

\* JSON texts returned by the providers.
SchemaJson == [t |-> "json_schema"]
RowsJson == [t |-> "json_rows"]
AckJson == [t |-> "json_ack"]
ValidationJson(valid, message, sql) ==
    [t |-> "json_validation", valid |-> valid, message |-> message, sql |-> sql]

\* f"SQL이 유효하지 않습니다: {message}"
RejectionText(message) == [t |-> "rejection", message |-> message]

\* json.loads(text) succeeds exactly on these texts.
IsJsonText(v) == v.t \in {"json_schema", "json_rows", "json_ack", "json_validation"}

\* str(x): a str is returned as it is, the dict {} becomes the text "{}".
PyStr(v) == IF v.t = "dict_empty" THEN Str("{}") ELSE v


(***************************************************************************)
(* Texts of the language model.  A text is a sequence of lexical chunks:   *)
(* white space, a ``` fence, a word, <think>, </think>, prose, or one      *)
(* complete JSON value.                                                    *)
(***************************************************************************)
Ws == [k |-> "ws"]
Fence == [k |-> "fence"]
Word == [k |-> "word"]
ThinkOpen == [k |-> "think_open"]
ThinkClose == [k |-> "think_close"]
Prose(s) == [k |-> "prose", s |-> s]
JsonTok(v) == [k |-> "json", v |-> v]

RECURSIVE LStrip(_)
LStrip(text) ==
    IF text = <<>> THEN text
    ELSE IF Head(text).k = "ws" THEN LStrip(Tail(text)) ELSE text

RECURSIVE RStrip(_)
RStrip(text) ==
    IF text = <<>> THEN text
    ELSE IF text[Len(text)].k = "ws" THEN RStrip(SubSeq(text, 1, Len(text) - 1))
    ELSE text

\* str.strip()
Strip(text) == RStrip(LStrip(text))

\* Position of the first chunk of kind k at or after position from, 0 if none.
FirstAt(text, k, from) ==
    LET hits == {i \in from..Len(text) : text[i].k = k}
    IN IF hits = {} THEN 0 ELSE CHOOSE i \in hits : \A j \in hits : i <= j

\* re.search(r"```(?:\w+)?\s*([\s\S]*?)\s*```", text.strip()): the content
\* of the first fenced block, stripped; the stripped text when there is none.
strip_code_block(text) ==
    LET t == Strip(text)
        open == FirstAt(t, "fence", 1)
        afterTag == IF open > 0 /\ open < Len(t) /\ t[open + 1].k = "word"
                    THEN open + 2 ELSE open + 1
        close == IF open = 0 THEN 0 ELSE FirstAt(t, "fence", afterTag)
    IN IF close = 0 THEN t ELSE Strip(SubSeq(t, afterTag, close - 1))

\* re.sub(r"<think>.*?</think>", "", text, flags=re.DOTALL)
RECURSIVE RemoveThink(_)
RemoveThink(text) ==
    LET open == FirstAt(text, "think_open", 1)
        close == IF open = 0 THEN 0 ELSE FirstAt(text, "think_close", open + 1)
    IN IF close = 0 THEN text
       ELSE SubSeq(text, 1, open - 1) \o RemoveThink(SubSeq(text, close + 1, Len(text)))

strip_think_block(text) == Strip(RemoveThink(text))

\* json.loads(text) succeeds when the text is one JSON value, white space
\* around it allowed.
IsValidJson(text) == Len(Strip(text)) = 1 /\ Strip(text)[1].k = "json"
JsonLoads(text) == Strip(text)[1].v

\* A text stored as a value (message content).
Text(toks) == [t |-> "text", toks |-> toks]

(***************************************************************************)
(* Tool names, providers and descriptors.                                  *)
(***************************************************************************)
SqlTools == <<"get_schema_info", "generate_sql", "validate_sql", "execute_sql">>
MemoryTools == <<"save_message", "get_messages", "search_messages">>
UnknownTool == "no_such_tool"

Range(f) == {f[i] : i \in DOMAIN f}

ToolNames == Range(SqlTools) \cup Range(MemoryTools) \cup {UnknownTool}

\* The keys of mcp_servers_config, in iteration order, and the tools each
\* provider serves.
Servers == <<"oracle-db", "memory">>
ToolsOf(server) == IF server = "oracle-db" THEN SqlTools ELSE MemoryTools

\* The descriptors load_mcp_tools builds for one session: one per tool, bound
\* to the session (and so to the event loop that opened it).
Descriptors(server, on_loop) ==
    [i \in 1..Len(ToolsOf(server)) |->
        [name |-> ToolsOf(server)[i], server |-> server, loop |-> on_loop]]

(***************************************************************************)
(* Argument mappings and planned invocations.                              *)
(***************************************************************************)
NoArgs ==
    [t |-> "mapping", session_id |-> Absent, natural_query |-> Absent,
     schema_info |-> Absent, sql |-> Absent, exec_sql |-> Absent,
     role |-> Absent, content |-> Absent]
JsonNull == [t |-> "null"]
IsMapping(a) == a.t = "mapping"

\* A JSON object of the plan; "" stands for a key that is missing or empty.
Invocation(function_name, function, name, arguments) ==
    [j |-> "dict", function_name |-> function_name, function |-> function,
     name |-> name, arguments |-> arguments]
JsonScalar == [j |-> "scalar"]
JsonList(items) == [j |-> "list", items |-> items]

PlannerSql == Str("planner sql")
PlannerSession == Str("planner session")

InvocationValues ==
    { Invocation("get_schema_info", "", "", NoArgs),
      Invocation("generate_sql", "", "",
                 [NoArgs EXCEPT !.natural_query = Str("..."), !.schema_info = Str("...")]),
      Invocation("validate_sql", "", "", [NoArgs EXCEPT !.sql = Str("...")]),
      Invocation("execute_sql", "", "", [NoArgs EXCEPT !.exec_sql = PlannerSql]),
      Invocation("", "execute_sql", "", Absent),
      Invocation("get_messages", "", "", NoArgs),
      Invocation("", "", "save_message",
                 [NoArgs EXCEPT !.session_id = PlannerSession, !.role = Str("user"),
                                !.content = Str("note")]),
      Invocation("search_messages", "", "", JsonNull),
      Invocation("", "", "", NoArgs),
      Invocation(UnknownTool, "", "", NoArgs),
      JsonScalar }

RECURSIVE SeqsUpTo(_, _)
SeqsUpTo(S, n) ==
    IF n = 0 THEN {<<>>}
    ELSE LET shorter == SeqsUpTo(S, n - 1)
         IN shorter \cup {Append(p, x) : p \in {q \in shorter : Len(q) = n - 1}, x \in S}

\* The plans of the end-to-end scenarios of the design, whatever MaxPlanLen is.
ScenarioPlans ==
    LET gs == Invocation("get_schema_info", "", "", NoArgs)
        gen == Invocation("generate_sql", "", "",
                 [NoArgs EXCEPT !.natural_query = Str("..."), !.schema_info = Str("...")])
        val == Invocation("validate_sql", "", "", [NoArgs EXCEPT !.sql = Str("...")])
        exe == Invocation("execute_sql", "", "", [NoArgs EXCEPT !.exec_sql = PlannerSql])
    IN { <<gs, gen, val, exe>>, <<gen, val, exe>>, <<val, exe, val, exe>> }

Plans == SeqsUpTo(InvocationValues, MaxPlanLen) \cup ScenarioPlans

\* What the planner model may answer before the clean-up of plan_tools_node.
PlannerBodies ==
    {<<JsonTok(JsonList(p))>> : p \in Plans}
    \cup {<<JsonTok(d)>> : d \in InvocationValues}
    \cup { <<>>, <<Prose("direct answer")>>,
           <<Prose("direct answer"), Ws, JsonTok(JsonList(<<>>))>> }

PlannerResponses ==
    PlannerBodies
    \cup {<<Ws, Fence, Word, Ws>> \o b \o <<Ws, Fence, Ws>> : b \in PlannerBodies}
    \cup {<<ThinkOpen, Prose("reasoning"), ThinkClose, Ws>> \o b : b \in PlannerBodies}
    \cup {<<Fence, Word, Ws>> \o b : b \in PlannerBodies}

\* What the answer model may answer.
AnswerResponses ==
    { <<Prose("report")>>,
      <<ThinkOpen, Prose("reasoning"), ThinkClose, Ws, Prose("report"), Ws>> }

\* "도구를 사용할 수 없어 답변을 생성할 수 없습니다."
CannotAnswer == <<Prose("cannot answer")>>


(***************************************************************************)
(* ThreadSafeMCPWrapper.execute_tool, as seen by one awaiting caller.      *)
(***************************************************************************)
\* for tool in self.all_tools: if tool.name == tool_name: ... break
\* The position of the first descriptor with that name, 0 when there is none.
FindTool(tools, tool_name) ==
    LET hits == {i \in 1..Len(tools) : tools[i].name = tool_name}
    IN IF hits = {} THEN 0 ELSE CHOOSE i \in hits : \A j \in hits : i <= j

\* What a provider answers to a call that reaches it (the tool functions of
\* mcp_server/server_oracle-db.py and mcp_server/server_memory.py).
ProviderResults(tool_name, args) ==
    CASE tool_name = "get_schema_info" -> {SchemaJson}
      [] tool_name = "generate_sql" -> {Str("SELECT COUNT(*) FROM X")}
      [] tool_name = "validate_sql" ->
            { ValidationJson(TRUE, "SQL valid", args.sql),
              ValidationJson(FALSE, "ORA-00900", args.sql) }
      [] tool_name = "execute_sql" -> {RowsJson}
      [] OTHER -> {AckJson}

\* _async_execute: the value execute_tool hands back for a call that got to
\* the worker, and whether the provider operation was invoked for it.
\* Arguments that are not a mapping make tool.ainvoke raise before any request
\* is sent: the except clause of line 115 turns that into the error marker.
AsyncExecuteOutcomes(tools, tool_name, args) ==
    IF FindTool(tools, tool_name) = 0
    THEN {[result |-> NotFoundMarker(tool_name), invoked |-> FALSE]}
    ELSE IF ~IsMapping(args)
    THEN {[result |-> ErrorMarker, invoked |-> FALSE]}
    ELSE {[result |-> r, invoked |-> TRUE] : r \in ProviderResults(tool_name, args)}
         \cup {[result |-> TimeoutMarker(tool_name), invoked |-> TRUE],
               [result |-> ErrorMarker, invoked |-> TRUE]}

\* execute_tool on a wrapper whose executor accepts work.
ExecuteToolOutcomes(tool_name, args) ==
    IF ~initialized
    THEN {[result |-> NotInitializedMarker, invoked |-> FALSE]}
    ELSE AsyncExecuteOutcomes(all_tools, tool_name, args)

(***************************************************************************)
(* MCPAgent.run_query and MCPAgent._save_message.                          *)
(***************************************************************************)
Questions == {Str("how many rows are in table X")}
DefaultSession == Str("default")         \* AgentConfig.session_id
SessionInputs == {Absent, Str("s1")}     \* the session_id argument of run_query

NoException == [type |-> "none", node |-> "none"]
Exception(type, node) == [type |-> type, node |-> node]

EmptyMemory == [n \in ToolNames |-> Absent]

ProviderCall(name, args, via) == [name |-> name, args |-> args, via |-> via]

SaveMessageArgs(role, content, session_id) ==
    [NoArgs EXCEPT !.session_id = session_id, !.role = Str(role), !.content = content]

\* _save_message: one execute_tool("save_message", ...) whose result is only
\* printed and whose exceptions are caught.  The calls it adds to those that
\* reached a provider.
SaveMessageCalls(role, content, session_id) ==
    IF \E o \in ExecuteToolOutcomes("save_message",
                                    SaveMessageArgs(role, content, session_id)) : o.invoked
    THEN <<ProviderCall("save_message", SaveMessageArgs(role, content, session_id),
                        "run_query")>>
    ELSE <<>>

InitialState(question, session_id) ==
    [question |-> question, tool_calls_is_none |-> TRUE, tool_calls |-> <<>>,
     executed_results |-> <<>>, final_answer |-> <<>>, session_id |-> session_id,
     dataframe |-> Absent]

\* run_query up to graph.ainvoke: default the session, save the question,
\* build the initial state.
RunQuery(question, session_in) ==
    LET session_id == IF session_in = Absent THEN DefaultSession ELSE session_in
    IN /\ pc \in {"idle", "returned", "raised"}
       /\ provider_calls' = SaveMessageCalls("user", question, session_id)
       /\ state' = InitialState(question, session_id)
       /\ pc' = "plan_tools"
       /\ raised' = NoException
       /\ visited' = <<>>
       /\ llm_requests' = <<>>
       /\ cleaned_response' = <<>>
       /\ call_idx' = 0
       /\ executed_results' = <<>>
       /\ memory' = EmptyMemory
       /\ UNCHANGED <<wrapperVars, memoryVars, oracleVars>>

(***************************************************************************)
(* plan_tools_node and the conditional edge after it.                      *)
(***************************************************************************)
\* Lines 31-50: one chat-completion request; the reply is cleaned.
PlanToolsRequest ==
    /\ pc = "plan_tools"
    /\ visited' = Append(visited, "plan_tools")
    /\ llm_requests' = Append(llm_requests, "plan_tools")
    /\ \E llm_response \in PlannerResponses :
          cleaned_response' = strip_think_block(strip_code_block(llm_response))
    /\ pc' = "plan_tools_parse"
    /\ UNCHANGED <<state, call_idx, executed_results, memory, raised, provider_calls>>
    /\ UNCHANGED <<wrapperVars, memoryVars, oracleVars>>

\* parsed_calls if isinstance(parsed_calls, list) else [parsed_calls]
AsToolCalls(parsed_calls) ==
    IF parsed_calls.j = "list" THEN parsed_calls.items ELSE <<parsed_calls>>

\* A faulty variant of line 64: the fallback leaves final_answer empty.
FallbackAnswerDropped(cleaned) == <<>>

\* The text the fallback stores as final_answer.
FallbackAnswer(cleaned) == cleaned

\* Lines 52-64: the state plan_tools_node returns.
PlannedState(st, cleaned) ==
    IF IsValidJson(cleaned)
    THEN [st EXCEPT !.tool_calls_is_none = FALSE,
                    !.tool_calls = AsToolCalls(JsonLoads(cleaned))]
    ELSE [st EXCEPT !.tool_calls_is_none = FALSE, !.tool_calls = <<>>,
                    !.final_answer = FallbackAnswer(cleaned)]

\* graph.py should_execute_tools: the node after plan_tools.
should_execute_tools(st) ==
    IF ~st.tool_calls_is_none /\ st.tool_calls # <<>> /\ Len(st.tool_calls) > 0
    THEN "execute_tools" ELSE "END"

PlanToolsParse ==
    /\ pc = "plan_tools_parse"
    /\ state' = PlannedState(state, cleaned_response)
    /\ pc' = IF should_execute_tools(state') = "execute_tools"
             THEN "execute_tools_enter" ELSE "save_assistant"
    /\ cleaned_response' = <<>>
    /\ UNCHANGED <<call_idx, executed_results, memory, raised, visited, llm_requests,
                   provider_calls>>
    /\ UNCHANGED <<wrapperVars, memoryVars, oracleVars>>


(***************************************************************************)
(* execute_tools_node.                                                     *)
(***************************************************************************)
\* call.get("function_name") or call.get("function") or call.get("name")
FnName(call) ==
    IF call.function_name # "" THEN call.function_name
    ELSE IF call.function # "" THEN call.function
    ELSE call.name

\* call.get("arguments", {})
ArgsOf(call) == IF call.arguments.t = "absent" THEN NoArgs ELSE call.arguments

\* memory.get(key, default)
MemGet(mem, key, default) == IF mem[key].t = "absent" THEN default ELSE mem[key]

\* The text "{}", the default of memory.get("validate_sql", "{}").
EmptyObjectJson == [t |-> "json_validation"]

\* dict.get(key, default) on a parsed JSON object.
JsonGet(obj, key, default) == IF key \in DOMAIN obj THEN obj[key] ELSE default

\* Line 53: the text handed to json.loads.
ValidationText(mem) == MemGet(mem, "validate_sql", EmptyObjectJson)

\* A faulty variant of the check of line 54: every validation is accepted.
ValidationAcceptedUnchecked(validation_res) == TRUE

\* Line 54, negated: validation_res.get("valid", False) is true.
ValidationAccepted(validation_res) == JsonGet(validation_res, "valid", FALSE)

\* Line 58: the result text of a rejected execute_sql step.
RejectionResult(validation_res) ==
    RejectionText(JsonGet(validation_res, "message", ""))

\* A faulty variant of line 61: an exec_sql written by the planner is kept.
ExecSqlArgFromPlanner(validation_res, args) ==
    IF args.exec_sql = Absent THEN PyStr(JsonGet(validation_res, "sql", EmptyStr))
    ELSE args.exec_sql

\* Line 61: str(validation_res.get("sql", ""))
ExecSqlArg(validation_res, args) == PyStr(JsonGet(validation_res, "sql", EmptyStr))

IsMemoryTool(fn_name) == fn_name \in Range(MemoryTools)

\* A faulty variant of lines 41-44: no session_id is injected.
WithSessionOmitted(fn_name, args, st) == args

\* Lines 41-44: session_id is injected only when the planner gave none.
WithSession(fn_name, args, st) ==
    IF IsMemoryTool(fn_name) /\ args.session_id = Absent
    THEN [args EXCEPT !.session_id = st.session_id] ELSE args

\* A faulty variant of lines 46-51: a value written by the planner is kept.
ChainedArgsFromPlanner(fn_name, args, st, mem) ==
    IF ~IsMapping(args) THEN args
    ELSE CASE fn_name = "generate_sql" ->
                [WithSession(fn_name, args, st) EXCEPT
                    !.natural_query = IF args.natural_query = Absent
                                      THEN st.question ELSE args.natural_query,
                    !.schema_info = MemGet(mem, "get_schema_info", EmptyMapping)]
           [] fn_name = "validate_sql" ->
                [WithSession(fn_name, args, st) EXCEPT
                    !.sql = MemGet(mem, "generate_sql", EmptyStr)]
           [] fn_name = "execute_sql" ->
                [WithSession(fn_name, args, st) EXCEPT
                    !.exec_sql = ExecSqlArg(ValidationText(mem), args)]
           [] OTHER -> WithSession(fn_name, args, st)

\* Lines 41-61: the arguments the tool is called with.
ChainedArgs(fn_name, args, st, mem) ==
    IF ~IsMapping(args) THEN args
    ELSE CASE fn_name = "generate_sql" ->
                [WithSession(fn_name, args, st) EXCEPT
                    !.natural_query = st.question,
                    !.schema_info = MemGet(mem, "get_schema_info", EmptyMapping)]
           [] fn_name = "validate_sql" ->
                [WithSession(fn_name, args, st) EXCEPT
                    !.sql = MemGet(mem, "generate_sql", EmptyStr)]
           [] fn_name = "execute_sql" ->
                [WithSession(fn_name, args, st) EXCEPT
                    !.exec_sql = ExecSqlArg(ValidationText(mem), args)]
           [] OTHER -> WithSession(fn_name, args, st)

\* The exception one loop iteration raises before it reaches the tool call,
\* NoException when it raises none.
ChainException(call, mem) ==
    IF call.j # "dict"
    THEN Exception("AttributeError", "execute_tools")          \* call.get
    ELSE IF FnName(call) = "" THEN NoException
    ELSE IF FnName(call) = "execute_sql"
    THEN IF ~IsJsonText(ValidationText(mem))
         THEN Exception("JSONDecodeError", "execute_tools")    \* json.loads
         ELSE IF ValidationAccepted(ValidationText(mem)) /\ ~IsMapping(ArgsOf(call))
         THEN Exception("TypeError", "execute_tools")          \* args["exec_sql"] = ...
         ELSE NoException
    ELSE IF (IsMemoryTool(FnName(call)) \/ FnName(call) \in {"generate_sql", "validate_sql"})
            /\ ~IsMapping(ArgsOf(call))
    THEN Exception("TypeError", "execute_tools")               \* on a non-mapping
    ELSE NoException

ExecutedResult(function, arguments, result) ==
    [function |-> function, arguments |-> arguments, result |-> result]

\* args is the dict inside the plan: chaining changes it in place.
WithArguments(st, i, args) ==
    IF st.tool_calls[i].arguments.t = "absent" THEN st
    ELSE [st EXCEPT !.tool_calls[i].arguments = args]

\* Lines 29-32.
ExecuteToolsEnter ==
    /\ pc = "execute_tools_enter"
    /\ visited' = Append(visited, "execute_tools")
    /\ call_idx' = 1
    /\ executed_results' = <<>>
    /\ memory' = EmptyMemory
    /\ pc' = "execute_tools"
    /\ UNCHANGED <<state, cleaned_response, raised, llm_requests, provider_calls>>
    /\ UNCHANGED <<wrapperVars, memoryVars, oracleVars>>

InLoop == pc = "execute_tools" /\ call_idx <= Len(state.tool_calls)

\* An iteration whose exception leaves the node, the graph and run_query.
ExecuteToolsRaise ==
    /\ InLoop
    /\ ChainException(state.tool_calls[call_idx], memory) # NoException
    /\ raised' = ChainException(state.tool_calls[call_idx], memory)
    /\ pc' = "raised"
    /\ UNCHANGED <<state, cleaned_response, call_idx, executed_results, memory, visited,
                   llm_requests, provider_calls>>
    /\ UNCHANGED <<wrapperVars, memoryVars, oracleVars>>

\* A faulty variant of lines 38-39: the nameless invocation is logged.
ExecuteToolsSkipLogged ==
    /\ InLoop
    /\ ChainException(state.tool_calls[call_idx], memory) = NoException
    /\ FnName(state.tool_calls[call_idx]) = ""
    /\ executed_results' =
          Append(executed_results,
                 ExecutedResult("", ArgsOf(state.tool_calls[call_idx]), Absent))
    /\ call_idx' = call_idx + 1
    /\ UNCHANGED <<pc, state, cleaned_response, memory, raised, visited,
                   llm_requests, provider_calls>>
    /\ UNCHANGED <<wrapperVars, memoryVars, oracleVars>>

\* Lines 38-39: no function name, continue.
ExecuteToolsSkip ==
    /\ InLoop
    /\ ChainException(state.tool_calls[call_idx], memory) = NoException
    /\ FnName(state.tool_calls[call_idx]) = ""
    /\ call_idx' = call_idx + 1
    /\ UNCHANGED <<pc, state, cleaned_response, executed_results, memory, raised, visited,
                   llm_requests, provider_calls>>
    /\ UNCHANGED <<wrapperVars, memoryVars, oracleVars>>

\* Lines 52-60: execute_sql without an accepted validation.
ExecuteToolsReject ==
    /\ InLoop
    /\ ChainException(state.tool_calls[call_idx], memory) = NoException
    /\ FnName(state.tool_calls[call_idx]) = "execute_sql"
    /\ ~ValidationAccepted(ValidationText(memory))
    /\ executed_results' =
          Append(executed_results,
                 ExecutedResult("execute_sql", ArgsOf(state.tool_calls[call_idx]),
                                RejectionResult(ValidationText(memory))))
    /\ call_idx' = call_idx + 1
    /\ UNCHANGED <<pc, state, cleaned_response, memory, raised, visited, llm_requests,
                   provider_calls>>
    /\ UNCHANGED <<wrapperVars, memoryVars, oracleVars>>

\* A faulty variant of line 65: the first result of a name is kept.
RememberFirst(mem, fn_name, tool_result) ==
    IF mem[fn_name] = Absent THEN [mem EXCEPT ![fn_name] = tool_result] ELSE mem

\* Line 65: memory[fn_name] = tool_result
Remember(mem, fn_name, tool_result) == [mem EXCEPT ![fn_name] = tool_result]

\* Lines 41-71: chain the arguments, call the tool, record its result.
ExecuteToolsDispatch ==
    /\ InLoop
    /\ ChainException(state.tool_calls[call_idx], memory) = NoException
    /\ FnName(state.tool_calls[call_idx]) # ""
    /\ FnName(state.tool_calls[call_idx]) = "execute_sql"
          => ValidationAccepted(ValidationText(memory))
    /\ LET fn_name == FnName(state.tool_calls[call_idx])
           args == ChainedArgs(fn_name, ArgsOf(state.tool_calls[call_idx]), state, memory)
       IN \E out \in ExecuteToolOutcomes(fn_name, args) :
            /\ memory' = Remember(memory, fn_name, out.result)
            /\ executed_results' =
                  Append(executed_results,
                         ExecutedResult(fn_name, args, PyStr(out.result)))
            /\ provider_calls' =
                  IF out.invoked
                  THEN Append(provider_calls, ProviderCall(fn_name, args, "execute_tools"))
                  ELSE provider_calls
            /\ state' = WithArguments(state, call_idx, args)
    /\ call_idx' = call_idx + 1
    /\ UNCHANGED <<pc, cleaned_response, raised, visited, llm_requests>>
    /\ UNCHANGED <<wrapperVars, memoryVars, oracleVars>>

\* Lines 73-75.
ExecuteToolsFinish ==
    /\ pc = "execute_tools"
    /\ call_idx > Len(state.tool_calls)
    /\ state' = [state EXCEPT !.executed_results = executed_results]
    /\ pc' = "generate_answer"
    /\ UNCHANGED <<cleaned_response, call_idx, executed_results, memory, raised, visited,
                   llm_requests, provider_calls>>
    /\ UNCHANGED <<wrapperVars, memoryVars, oracleVars>>

(***************************************************************************)
(* generate_answer_node.                                                   *)
(***************************************************************************)
\* next((item for item in executed_results if item.get("function") ==
\* "execute_sql"), None): its position, 0 for None.
ExecuteSqlItem(results) ==
    LET hits == {i \in 1..Len(results) : results[i].function = "execute_sql"}
    IN IF hits = {} THEN 0 ELSE CHOOSE i \in hits : \A j \in hits : i <= j

\* Lines 22-25: nothing was executed, no request is sent.
GenerateAnswerEmpty ==
    /\ pc = "generate_answer"
    /\ state.executed_results = <<>>
    /\ visited' = Append(visited, "generate_answer")
    /\ state' = [state EXCEPT !.final_answer = CannotAnswer]
    /\ pc' = "save_assistant"
    /\ UNCHANGED <<cleaned_response, call_idx, executed_results, memory, raised,
                   llm_requests, provider_calls>>
    /\ UNCHANGED <<wrapperVars, memoryVars, oracleVars>>

\* Line 35: json.loads of an execute_sql result that is not JSON.
GenerateAnswerRaise ==
    /\ pc = "generate_answer"
    /\ state.executed_results # <<>>
    /\ ExecuteSqlItem(state.executed_results) # 0
    /\ ~IsJsonText(state.executed_results[ExecuteSqlItem(state.executed_results)].result)
    /\ visited' = Append(visited, "generate_answer")
    /\ raised' = Exception("JSONDecodeError", "generate_answer")
    /\ pc' = "raised"
    /\ UNCHANGED <<state, cleaned_response, call_idx, executed_results, memory,
                   llm_requests, provider_calls>>
    /\ UNCHANGED <<wrapperVars, memoryVars, oracleVars>>

\* Lines 27-68: one chat-completion request over the results.
GenerateAnswerRequest(llm_response) ==
    /\ pc = "generate_answer"
    /\ state.executed_results # <<>>
    /\ ExecuteSqlItem(state.executed_results) # 0
          => IsJsonText(state.executed_results[ExecuteSqlItem(state.executed_results)].result)
    /\ visited' = Append(visited, "generate_answer")
    /\ llm_requests' = Append(llm_requests, "generate_answer")
    /\ state' = [state EXCEPT
                    !.final_answer = strip_think_block(llm_response),
                    !.dataframe = IF ExecuteSqlItem(state.executed_results) # 0
                                  THEN [t |-> "dataframe"] ELSE @]
    /\ pc' = "save_assistant"
    /\ UNCHANGED <<cleaned_response, call_idx, executed_results, memory, raised,
                   provider_calls>>
    /\ UNCHANGED <<wrapperVars, memoryVars, oracleVars>>

\* run_query after graph.ainvoke: save the answer and return it.
SaveAssistant ==
    /\ pc = "save_assistant"
    /\ provider_calls' = provider_calls \o
          SaveMessageCalls("assistant", Text(state.final_answer), state.session_id)
    /\ pc' = "returned"
    /\ UNCHANGED <<state, cleaned_response, call_idx, executed_results, memory, raised,
                   visited, llm_requests>>
    /\ UNCHANGED <<wrapperVars, memoryVars, oracleVars>>

(***************************************************************************)
(* The memory provider, src/mcp_server/server_memory.py: the module global *)
(* memory_storage and the three tools that FastMCP serves.  A content or a *)
(* keyword is a sequence of characters, because search_messages looks      *)
(* inside it.                                                              *)
(***************************************************************************)
MemorySessions == {"s1", "s2"}
Roles == {"user", "assistant"}
TextSql == <<"S", "Q", "L">>
TextHi == <<"h", "i">>
Contents == {TextSql, TextHi}
Keywords == {<<"s", "Q">>, <<"z">>, <<>>}
MessageIdInputs == {Absent, EmptyStr, Str("m-7")}

Int(n) == [t |-> "int", n |-> n]
DefaultLimit == 10   \* limit: Optional[int] = 10
LimitInputs == {Absent, Int(DefaultLimit)} \cup {Int(k) : k \in 0..MaxLimit}

\* Python truth value of an optional text or an optional int.
IsTruthy(v) ==
    CASE v.t = "str" -> v.s # ""
      [] v.t = "int" -> v.n # 0
      [] OTHER -> FALSE

\* str.lower() on the characters in use.
LowerChar(ch) ==
    CASE ch = "S" -> "s"
      [] ch = "Q" -> "q"
      [] ch = "L" -> "l"
      [] OTHER -> ch
Lower(text) == [i \in 1..Len(text) |-> LowerChar(text[i])]

\* Python: sub in text
Contains(sub, text) ==
    /\ Len(sub) <= Len(text)
    /\ \E k \in 0..(Len(text) - Len(sub)) : SubSeq(text, k + 1, k + Len(sub)) = sub

\* f"{session_id}_{n}"
GeneratedMessageId(session_id, n) == [t |-> "fstr", parts |-> <<session_id, "_", n>>]

ChatMessage(message_id, timestamp, role, content) ==
    [t |-> "ChatMessage", message_id |-> message_id, timestamp |-> timestamp,
     role |-> role, content |-> content, metadata |-> EmptyMapping]

\* dataclasses.asdict
AsDict(msg) == [msg EXCEPT !.t = "dict"]
AsDicts(messages) == [i \in 1..Len(messages) |-> AsDict(messages[i])]

\* storage.get(session_id, [])
StorageGet(storage, session_id) ==
    IF session_id \in DOMAIN storage THEN storage[session_id] ELSE <<>>

\* memory_storage.get(session_id, [])
SessionList(session_id) == StorageGet(memory_storage, session_id)

PrependMessage(messages, message) == <<message>> \o messages

\* memory_storage[session_id].append(message)
AppendMessage(messages, message) == Append(messages, message)

FirstN(messages, n) ==
    IF n >= Len(messages) THEN messages ELSE SubSeq(messages, 1, n)

\* messages[-n:] for n > 0
LastN(messages, n) ==
    IF n >= Len(messages) THEN messages
    ELSE SubSeq(messages, Len(messages) - n + 1, Len(messages))

\* if limit: messages = messages[-limit:]
Limited(messages, limit) ==
    IF IsTruthy(limit) THEN LastN(messages, limit.n) ELSE messages

\* keyword.lower() in msg.content.lower()
Matches(keyword, msg) == Contains(Lower(keyword), Lower(msg.content))

MatchingMessages(messages, keyword) ==
    SelectSeq(messages, LAMBDA msg : Matches(keyword, msg))

MemoryCall(op, session_id, role, content, message_id, keyword, limit) ==
    [op |-> op, session_id |-> session_id, role |-> role, content |-> content,
     message_id |-> message_id, keyword |-> keyword, limit |-> limit]
NoCall == MemoryCall("none", "", "", <<>>, Absent, <<>>, Absent)

\* The dicts returned by get_messages and search_messages.
NoMessagesResult ==
    [t |-> "dict", success |-> TRUE, message |-> [text |-> "no messages in session", n |-> 0],
     data |-> <<>>]
FoundResult(messages) ==
    [t |-> "dict", success |-> TRUE, message |-> [text |-> "found", n |-> Len(messages)],
     data |-> AsDicts(messages)]

\* save_message, lines 51-65, on a store: the store it leaves.  With a
\* message_id that is not None and not empty the body of `if not message_id`
\* is skipped and nothing is stored.
SaveStored(storage, session_id, role, content, message_id, timestamp) ==
    IF ~IsTruthy(message_id)
    THEN LET generated == GeneratedMessageId(session_id, Len(StorageGet(storage, session_id)))
             message == ChatMessage(generated, timestamp, role, content)
             messages == AppendMessage(StorageGet(storage, session_id), message)
         IN [s \in DOMAIN storage \cup {session_id} |->
                IF s = session_id THEN messages ELSE storage[s]]
    ELSE storage

\* save_message, line 68: the function returns memory_storage itself; with
\* a message_id supplied it falls off its end and returns None.
SaveResult(storage, session_id, role, content, message_id, timestamp) ==
    IF ~IsTruthy(message_id)
    THEN [t |-> "storage",
          value |-> SaveStored(storage, session_id, role, content, message_id, timestamp)]
    ELSE Absent

\* get_messages, lines 91-108, on a store.
GetResult(storage, session_id, limit) ==
    IF session_id \notin DOMAIN storage THEN NoMessagesResult
    ELSE FoundResult(Limited(storage[session_id], limit))

\* search_messages, lines 128-151, on a store.
SearchResult(storage, session_id, keyword, limit) ==
    IF session_id \notin DOMAIN storage THEN NoMessagesResult
    ELSE FoundResult(Limited(MatchingMessages(storage[session_id], keyword), limit))

\* save_message, lines 41-79.
SaveMessage(session_id, role, content, message_id) ==
    /\ now < MaxRequests
    /\ now' = now + 1
    /\ last_call' = MemoryCall("save_message", session_id, role, content, message_id,
                               <<>>, Absent)
    /\ memory_storage' =
          SaveStored(memory_storage, session_id, role, content, message_id, now')
    /\ last_result' =
          SaveResult(memory_storage, session_id, role, content, message_id, now')
    /\ UNCHANGED <<runVars, wrapperVars, oracleVars>>

\* get_messages, lines 83-115.
GetMessages(session_id, limit) ==
    /\ now < MaxRequests
    /\ now' = now + 1
    /\ last_call' = MemoryCall("get_messages", session_id, "", <<>>, Absent, <<>>, limit)
    /\ last_result' = GetResult(memory_storage, session_id, limit)
    /\ UNCHANGED <<memory_storage, runVars, wrapperVars, oracleVars>>

\* search_messages, lines 119-158.
SearchMessages(session_id, keyword, limit) ==
    /\ now < MaxRequests
    /\ now' = now + 1
    /\ last_call' = MemoryCall("search_messages", session_id, "", <<>>, Absent,
                               keyword, limit)
    /\ last_result' = SearchResult(memory_storage, session_id, keyword, limit)
    /\ UNCHANGED <<memory_storage, runVars, wrapperVars, oracleVars>>

\* The provider process after the module is loaded, line 32.
InitMemoryStorage ==
    /\ memory_storage = [s \in {} |-> <<>>]
    /\ now = 0
    /\ last_call = NoCall
    /\ last_result = Absent

(***************************************************************************)
(* The SQL provider, server_oracle-db.py.  FastMCP over stdio handles one  *)
(* tool request at a time, so each tool function is one step.  The REMOTE  *)
(* variant has the same connection handling in all three tools.            *)
(***************************************************************************)
MaxSqlCalls == 3

\* A statement as the database sees it: what kind it is, and whether the
\* database accepts it (parses it and runs it without an error).
Statement(kind, well_formed) == [t |-> "sql", kind |-> kind, well_formed |-> well_formed]
StatementKinds == {"select", "dml", "ddl"}
Statements == {Statement(k, w) : k \in StatementKinds, w \in BOOLEAN}

\* cursor.description after cursor.execute(exec_sql): None unless the
\* statement is a query.
DescriptionIsNone(stmt) == stmt.kind # "select"

\* What the tool functions return.
UnsupportedError == [t |-> "dict_unsupported"]   \* {"error": "SELECT 문만 지원합니다."}
ErrorRows(exec_sql) == [t |-> "error_rows", exec_sql |-> exec_sql]
RowsResult == [t |-> "rows"]
SchemaResult == [t |-> "schema"]
ValidationResult(valid, sql) == [t |-> "validation", valid |-> valid, sql |-> sql]
RaisedInTool == [t |-> "raised"]                \* the exception left the function
NoSqlCall == [tool |-> "none"]

\* A connection the function returns without conn.close(): its only
\* reference is the local variable conn.  Whether the object is finalized
\* (and the connection thereby closed) by the time the function has
\* returned is up to the interpreter, so both outcomes are possible.
Leaked(finalized) == IF finalized THEN 0 ELSE 1

\* get_connection(), lines 32-41: oracledb.connect raises when the database
\* cannot be reached; all three tools call it outside any try.
ConnectFails(tool, args) ==
    /\ sql_call' = [tool |-> tool, args |-> args]
    /\ sql_result' = RaisedInTool
    /\ UNCHANGED <<open_connections, db_executed>>

\* get_schema_info, lines 62-114.  cursor.close() and conn.close() are the
\* last statements before the return; a query that raises skips them.
GetSchemaInfo(connects, queries_ok, finalized) ==
    /\ sql_calls < MaxSqlCalls
    /\ sql_calls' = sql_calls + 1
    /\ IF ~connects
         THEN ConnectFails("get_schema_info", EmptyMapping)
         ELSE /\ sql_call' = [tool |-> "get_schema_info", args |-> EmptyMapping]
              /\ sql_result' = IF queries_ok THEN SchemaResult ELSE RaisedInTool
              /\ open_connections' =
                    open_connections + (IF queries_ok THEN 0 ELSE Leaked(finalized))
              /\ UNCHANGED db_executed
    /\ UNCHANGED <<runVars, wrapperVars, memoryVars>>

\* validate_sql, lines 148-163: EXPLAIN PLAN FOR <sql> makes the database
\* parse the statement without running it.  Both returns leave the cursor
\* and the connection as they are.
ValidateSql(sql, connects, finalized) ==
    /\ sql_calls < MaxSqlCalls
    /\ sql_calls' = sql_calls + 1
    /\ IF ~connects
         THEN ConnectFails("validate_sql", sql)
         ELSE /\ sql_call' = [tool |-> "validate_sql", args |-> sql]
              /\ sql_result' = ValidationResult(sql.well_formed, sql)
              /\ open_connections' = open_connections + Leaked(finalized)
              /\ UNCHANGED db_executed
    /\ UNCHANGED <<runVars, wrapperVars, memoryVars>>

\* execute_sql, lines 166-194: cursor.execute(exec_sql) comes first; the
\* test of cursor.description follows it.  The return for a statement that
\* is not a query closes nothing; the other two returns close both.
ExecuteSql(exec_sql, connects, finalized) ==
    /\ sql_calls < MaxSqlCalls
    /\ sql_calls' = sql_calls + 1
    /\ IF ~connects
         THEN ConnectFails("execute_sql", exec_sql)
         ELSE /\ sql_call' = [tool |-> "execute_sql", args |-> exec_sql]
              /\ IF ~exec_sql.well_formed
                   THEN /\ sql_result' = ErrorRows(exec_sql)
                        /\ UNCHANGED <<open_connections, db_executed>>
                   ELSE /\ db_executed' = Append(db_executed, exec_sql)
                        /\ IF DescriptionIsNone(exec_sql)
                             THEN /\ sql_result' = UnsupportedError
                                  /\ open_connections' =
                                        open_connections + Leaked(finalized)
                             ELSE /\ sql_result' = RowsResult
                                  /\ UNCHANGED open_connections
    /\ UNCHANGED <<runVars, wrapperVars, memoryVars>>

\* The provider process after the module is loaded: mcp.run() at line 198.
InitOracle ==
    /\ open_connections = 0
    /\ db_executed = <<>>
    /\ sql_calls = 0
    /\ sql_call = NoSqlCall
    /\ sql_result = Absent

(***************************************************************************)
(* Spec: an agent after MCPAgent.initialize() brought every provider up.   *)
(***************************************************************************)
Callers == 1..NumCallers
ServerSet == Range(Servers)
IdleCaller == [op |-> "none", tool |-> "", status |-> "idle", result |-> Absent]

InitRun ==
    /\ pc = "idle"
    /\ state = InitialState(Str(""), DefaultSession)
    /\ cleaned_response = <<>>
    /\ call_idx = 0
    /\ executed_results = <<>>
    /\ memory = EmptyMemory
    /\ raised = NoException
    /\ visited = <<>>
    /\ llm_requests = <<>>
    /\ provider_calls = <<>>

Init ==
    /\ InitRun
    /\ InitMemoryStorage
    /\ InitOracle
    /\ initialized = TRUE
    /\ loop = 1
    /\ closed_loops = {}
    /\ server_sessions = [s \in ServerSet |-> 1]
    /\ all_tools = Descriptors("oracle-db", 1) \o Descriptors("memory", 1)
    /\ executor_shutdown = FALSE
    /\ work_queue = <<>>
    /\ running = {}
    /\ caller = [c \in Callers |-> IdleCaller]
    /\ opens = [s \in ServerSet |-> 1]
    /\ inits_submitted = 1

Next ==
    \/ \E q \in Questions, s \in SessionInputs : RunQuery(q, s)
    \/ PlanToolsRequest
    \/ PlanToolsParse
    \/ ExecuteToolsEnter
    \/ ExecuteToolsRaise
    \/ ExecuteToolsSkip
    \/ ExecuteToolsReject
    \/ ExecuteToolsDispatch
    \/ ExecuteToolsFinish
    \/ GenerateAnswerEmpty
    \/ GenerateAnswerRaise
    \/ \E r \in AnswerResponses : GenerateAnswerRequest(r)
    \/ SaveAssistant

Spec == Init /\ [][Next]_vars

\* The agent after an initialize() during which the "oracle-db" provider
\* could not be reached: _async_init reports the failure, loads the tools of
\* "memory" and still sets _initialized (mcp_wrapper.py lines 61-79).
InitDegraded ==
    /\ InitRun
    /\ InitMemoryStorage
    /\ InitOracle
    /\ initialized = TRUE
    /\ loop = 1
    /\ closed_loops = {}
    /\ server_sessions = [s \in ServerSet |-> IF s = "memory" THEN 1 ELSE 0]
    /\ all_tools = Descriptors("memory", 1)
    /\ executor_shutdown = FALSE
    /\ work_queue = <<>>
    /\ running = {}
    /\ caller = [c \in Callers |-> IdleCaller]
    /\ opens = [s \in ServerSet |-> IF s = "memory" THEN 1 ELSE 0]
    /\ inits_submitted = 1

SpecDegraded == InitDegraded /\ [][Next]_vars


(***************************************************************************)
(* SpecWrapper: ThreadSafeMCPWrapper under concurrent callers.  A call     *)
(* that needs the provider sessions submits a function to self.executor    *)
(* and awaits it; the executor's worker threads take the functions in      *)
(* submission order.                                                       *)
(***************************************************************************)
max_workers == 1     \* ThreadPoolExecutor(max_workers=1)

WrapperToolNames == {"execute_sql", UnknownTool}

\* A function submitted to the executor.  on_loop is the event loop it runs
\* on, next_server the position of _async_init in the server loop, tool_loop
\* the loop of the session behind the descriptor _async_execute picked.
Work(kind, c, tool_name, on_loop) ==
    [kind |-> kind, caller |-> c, tool_name |-> tool_name, on_loop |-> on_loop,
     next_server |-> 1, tool_loop |-> 0]

Free(c) == caller[c].status # "waiting"

Returns(c, op, tool_name, result) ==
    [caller EXCEPT ![c] = [op |-> op, tool |-> tool_name, status |-> "returned",
                           result |-> result]]
Raises(c, op, tool_name) ==
    [caller EXCEPT ![c] = [op |-> op, tool |-> tool_name, status |-> "raised",
                           result |-> Absent]]
Waits(c, op, tool_name) ==
    [caller EXCEPT ![c] = [op |-> op, tool |-> tool_name, status |-> "waiting",
                           result |-> Absent]]

AlreadyInitializedIgnored == FALSE

\* initialize(), line 42: if self._initialized
AlreadyInitialized == initialized

\* initialize(), lines 42-44: already initialized, return.
InitializeNoop(c) ==
    /\ Free(c)
    /\ AlreadyInitialized
    /\ caller' = Returns(c, "initialize", "", Absent)
    /\ UNCHANGED <<initialized, loop, closed_loops, server_sessions, all_tools,
                   executor_shutdown, work_queue, running, opens, inits_submitted>>
    /\ UNCHANGED <<runVars, memoryVars, oracleVars>>

\* initialize(), line 88: run_in_executor on an executor that was shut down.
InitializeRefused(c) ==
    /\ Free(c)
    /\ ~AlreadyInitialized
    /\ executor_shutdown
    /\ caller' = Raises(c, "initialize", "")
    /\ UNCHANGED <<initialized, loop, closed_loops, server_sessions, all_tools,
                   executor_shutdown, work_queue, running, opens, inits_submitted>>
    /\ UNCHANGED <<runVars, memoryVars, oracleVars>>

\* initialize(), line 88: _init_in_thread is submitted and awaited.
InitializeSubmit(c) ==
    /\ Free(c)
    /\ ~AlreadyInitialized
    /\ ~executor_shutdown
    /\ inits_submitted < MaxInits
    /\ inits_submitted' = inits_submitted + 1
    /\ work_queue' = Append(work_queue, Work("init", c, "", inits_submitted + 1))
    /\ caller' = Waits(c, "initialize", "")
    /\ UNCHANGED <<initialized, loop, closed_loops, server_sessions, all_tools,
                   executor_shutdown, running, opens>>
    /\ UNCHANGED <<runVars, memoryVars, oracleVars>>

\* execute_tool(), lines 95-96.
ExecuteToolUninitialized(c, tool_name) ==
    /\ Free(c)
    /\ ~initialized
    /\ caller' = Returns(c, "execute_tool", tool_name, NotInitializedMarker)
    /\ UNCHANGED <<initialized, loop, closed_loops, server_sessions, all_tools,
                   executor_shutdown, work_queue, running, opens, inits_submitted>>
    /\ UNCHANGED <<runVars, memoryVars, oracleVars>>

\* execute_tool(), lines 124-126: run_in_executor on an executor that was
\* shut down raises RuntimeError.
ExecuteToolRefused(c, tool_name) ==
    /\ Free(c)
    /\ initialized
    /\ executor_shutdown
    /\ caller' = Raises(c, "execute_tool", tool_name)
    /\ UNCHANGED <<initialized, loop, closed_loops, server_sessions, all_tools,
                   executor_shutdown, work_queue, running, opens, inits_submitted>>
    /\ UNCHANGED <<runVars, memoryVars, oracleVars>>

\* execute_tool(), lines 124-126: _execute_in_thread is submitted and awaited.
ExecuteToolSubmit(c, tool_name) ==
    /\ Free(c)
    /\ initialized
    /\ ~executor_shutdown
    /\ work_queue' = Append(work_queue, Work("exec", c, tool_name, 0))
    /\ caller' = Waits(c, "execute_tool", tool_name)
    /\ UNCHANGED <<initialized, loop, closed_loops, server_sessions, all_tools,
                   executor_shutdown, running, opens, inits_submitted>>
    /\ UNCHANGED <<runVars, memoryVars, oracleVars>>

\* Line 132: self.loop and not self.loop.is_closed()
LoopIsOpen == loop # 0 /\ loop \notin closed_loops

\* cleanup(), lines 132-148, up to the wait inside shutdown(wait=True).
CleanupCall(c) ==
    /\ Free(c)
    /\ ~(LoopIsOpen /\ executor_shutdown)
    /\ work_queue' = IF LoopIsOpen
                     THEN Append(work_queue, Work("cleanup", c, "", 0))
                     ELSE work_queue
    /\ executor_shutdown' = TRUE
    /\ caller' = Waits(c, "cleanup", "")
    /\ UNCHANGED <<initialized, loop, closed_loops, server_sessions, all_tools,
                   running, opens, inits_submitted>>
    /\ UNCHANGED <<runVars, memoryVars, oracleVars>>

\* cleanup(), line 146: submit on an executor that was shut down.
CleanupRefused(c) ==
    /\ Free(c)
    /\ LoopIsOpen
    /\ executor_shutdown
    /\ caller' = Raises(c, "cleanup", "")
    /\ UNCHANGED <<initialized, loop, closed_loops, server_sessions, all_tools,
                   executor_shutdown, work_queue, running, opens, inits_submitted>>
    /\ UNCHANGED <<runVars, memoryVars, oracleVars>>

\* cleanup(), line 148: shutdown(wait=True) returns when the executor is idle.
CleanupReturn(c) ==
    /\ caller[c].op = "cleanup"
    /\ caller[c].status = "waiting"
    /\ work_queue = <<>>
    /\ running = {}
    /\ caller' = Returns(c, "cleanup", "", Absent)
    /\ UNCHANGED <<initialized, loop, closed_loops, server_sessions, all_tools,
                   executor_shutdown, work_queue, running, opens, inits_submitted>>
    /\ UNCHANGED <<runVars, memoryVars, oracleVars>>

\* A worker thread takes the next function.  _init_in_thread starts by
\* replacing self.loop (lines 47-48); _execute_in_thread and
\* _cleanup_in_thread run on whatever self.loop is.
WorkerStart ==
    /\ work_queue # <<>>
    /\ Cardinality(running) < max_workers
    /\ LET w == Head(work_queue)
           found == FindTool(all_tools, w.tool_name)
       IN /\ work_queue' = Tail(work_queue)
          /\ loop' = IF w.kind = "init" THEN w.on_loop ELSE loop
          /\ running' = running \cup
                { IF w.kind = "init" THEN w
                  ELSE [w EXCEPT !.on_loop = loop,
                                 !.tool_loop = IF w.kind = "exec" /\ found # 0
                                               THEN all_tools[found].loop ELSE 0] }
    /\ UNCHANGED <<initialized, closed_loops, server_sessions, all_tools,
                   executor_shutdown, caller, opens, inits_submitted>>
    /\ UNCHANGED <<runVars, memoryVars, oracleVars>>

\* _async_init, lines 61-76, for one server: the session opens and its tools
\* load ("ok"), the session opens and load_mcp_tools fails ("fail_load"), or
\* opening the session fails ("fail_enter").
WorkerInitServer(w, outcome) ==
    /\ w \in running
    /\ w.kind = "init"
    /\ w.next_server <= Len(Servers)
    /\ LET server == Servers[w.next_server]
       IN /\ server_sessions' = IF outcome = "fail_enter" THEN server_sessions
                                ELSE [server_sessions EXCEPT ![server] = w.on_loop]
          /\ opens' = IF outcome = "fail_enter" THEN opens
                      ELSE [opens EXCEPT ![server] = @ + 1]
          /\ all_tools' = IF outcome = "ok"
                          THEN all_tools \o Descriptors(server, w.on_loop)
                          ELSE all_tools
    /\ running' = (running \ {w}) \cup {[w EXCEPT !.next_server = @ + 1]}
    /\ UNCHANGED <<initialized, loop, closed_loops, executor_shutdown, work_queue,
                   caller, inits_submitted>>
    /\ UNCHANGED <<runVars, memoryVars, oracleVars>>

\* _async_init, lines 78-79, and the return of initialize().
WorkerInitFinish(w) ==
    /\ w \in running
    /\ w.kind = "init"
    /\ w.next_server > Len(Servers)
    /\ initialized' = TRUE
    /\ running' = running \ {w}
    /\ caller' = Returns(w.caller, "initialize", "", Absent)
    /\ UNCHANGED <<loop, closed_loops, server_sessions, all_tools, executor_shutdown,
                   work_queue, opens, inits_submitted>>
    /\ UNCHANGED <<runVars, memoryVars, oracleVars>>

\* _async_execute, lines 100-121, and the return of execute_tool().
WorkerExecFinish(w) ==
    /\ w \in running
    /\ w.kind = "exec"
    /\ \E out \in AsyncExecuteOutcomes(all_tools, w.tool_name, NoArgs) :
          caller' = IF w.on_loop \in closed_loops
                    THEN Raises(w.caller, "execute_tool", w.tool_name)
                    ELSE Returns(w.caller, "execute_tool", w.tool_name, out.result)
    /\ running' = running \ {w}
    /\ UNCHANGED <<initialized, loop, closed_loops, server_sessions, all_tools,
                   executor_shutdown, work_queue, opens, inits_submitted>>
    /\ UNCHANGED <<runVars, memoryVars, oracleVars>>

\* _cleanup_in_thread, lines 133-144.
WorkerCleanupFinish(w) ==
    /\ w \in running
    /\ w.kind = "cleanup"
    /\ server_sessions' = [s \in ServerSet |-> 0]
    /\ all_tools' = <<>>
    /\ closed_loops' = closed_loops \cup {w.on_loop}
    /\ running' = running \ {w}
    /\ UNCHANGED <<initialized, loop, executor_shutdown, work_queue, caller, opens,
                   inits_submitted>>
    /\ UNCHANGED <<runVars, memoryVars, oracleVars>>

\* The wrapper after __init__, lines 29-36.
InitWrapper ==
    /\ InitRun
    /\ InitMemoryStorage
    /\ InitOracle
    /\ initialized = FALSE
    /\ loop = 0
    /\ closed_loops = {}
    /\ server_sessions = [s \in ServerSet |-> 0]
    /\ all_tools = <<>>
    /\ executor_shutdown = FALSE
    /\ work_queue = <<>>
    /\ running = {}
    /\ caller = [c \in Callers |-> IdleCaller]
    /\ opens = [s \in ServerSet |-> 0]
    /\ inits_submitted = 0

NextWrapper ==
    \/ \E c \in Callers : InitializeNoop(c)
    \/ \E c \in Callers : InitializeRefused(c)
    \/ \E c \in Callers : InitializeSubmit(c)
    \/ \E c \in Callers, n \in WrapperToolNames : ExecuteToolUninitialized(c, n)
    \/ \E c \in Callers, n \in WrapperToolNames : ExecuteToolRefused(c, n)
    \/ \E c \in Callers, n \in WrapperToolNames : ExecuteToolSubmit(c, n)
    \/ \E c \in Callers : CleanupCall(c)
    \/ \E c \in Callers : CleanupRefused(c)
    \/ \E c \in Callers : CleanupReturn(c)
    \/ WorkerStart
    \/ \E w \in running, o \in {"ok", "fail_load", "fail_enter"} : WorkerInitServer(w, o)
    \/ \E w \in running : WorkerInitFinish(w)
    \/ \E w \in running : WorkerExecFinish(w)
    \/ \E w \in running : WorkerCleanupFinish(w)

SpecWrapper == InitWrapper /\ [][NextWrapper]_vars

\* The wrapper with the progress its code guarantees: the worker thread takes
\* the next submitted function when it is idle; _async_execute ends within
\* the 10 s of asyncio.wait_for (line 107); the end of _async_init is local
\* code.  Opening a provider session and loading its tools (lines 63-67)
\* wait for the provider with no timeout, so WorkerInitServer gets no
\* fairness: a provider that never responds keeps _init_in_thread on the
\* worker for ever.
FairnessWrapper ==
    /\ WF_vars(WorkerStart)
    /\ WF_vars(\E w \in running : WorkerExecFinish(w))
    /\ WF_vars(\E w \in running : WorkerInitFinish(w))

SpecWrapperFair == SpecWrapper /\ FairnessWrapper


(***************************************************************************)
(* Specification SpecMemory: the memory provider handling tool requests    *)
(* one at a time (FastMCP over stdio), whoever sends them.                 *)
(***************************************************************************)
InitMemory == InitWrapper

NextMemory ==
    \/ \E s \in MemorySessions, r \in Roles, c \in Contents, m \in MessageIdInputs :
          SaveMessage(s, r, c, m)
    \/ \E s \in MemorySessions, l \in LimitInputs : GetMessages(s, l)
    \/ \E s \in MemorySessions, k \in Keywords, l \in LimitInputs :
          SearchMessages(s, k, l)

SpecMemory == InitMemory /\ [][NextMemory]_vars

(***************************************************************************)
(* Specification SpecOracle: the SQL provider handling tool requests one   *)
(* at a time, whoever sends them.                                          *)
(***************************************************************************)
InitOracleProvider == InitWrapper

NextOracle ==
    \/ \E connects \in BOOLEAN, queries_ok \in BOOLEAN, finalized \in BOOLEAN :
          GetSchemaInfo(connects, queries_ok, finalized)
    \/ \E sql \in Statements, connects \in BOOLEAN, finalized \in BOOLEAN :
          ValidateSql(sql, connects, finalized)
    \/ \E exec_sql \in Statements, connects \in BOOLEAN, finalized \in BOOLEAN :
          ExecuteSql(exec_sql, connects, finalized)

SpecOracle == InitOracleProvider /\ [][NextOracle]_vars


(***************************************************************************)
(* Properties.                                                             *)
(***************************************************************************)
\* The iteration at hand is an execute_sql step.
AtExecuteSql ==
    /\ InLoop
    /\ state.tool_calls[call_idx].j = "dict"
    /\ FnName(state.tool_calls[call_idx]) = "execute_sql"

\* The latest validate_sql result of this run is a validation report.
Validated == memory["validate_sql"].t = "json_validation"

\* C1: in execute_tools_node, an execute_sql step that follows a validate_sql
\* whose result has valid = false appends one ExecutedResult for execute_sql
\* whose result text carries the validator's message, and no tool call reaches
\* a provider in that step.
C1_RejectedSqlIsNotExecuted ==
    [][ (AtExecuteSql /\ Validated /\ ~memory["validate_sql"].valid)
        => /\ Len(executed_results') = Len(executed_results) + 1
           /\ SubSeq(executed_results', 1, Len(executed_results)) = executed_results
           /\ executed_results'[Len(executed_results')].function = "execute_sql"
           /\ executed_results'[Len(executed_results')].result =
                 RejectionText(memory["validate_sql"].message)
           /\ provider_calls' = provider_calls
           /\ pc' = "execute_tools" ]_vars

\* A rejected execute_sql step has been recorded after validate_sql reported
\* ORA-00900, and execute_sql never reached the provider.
C1_Witness ==
    /\ \E i \in 1..Len(executed_results) :
          /\ executed_results[i].function = "execute_sql"
          /\ executed_results[i].result = RejectionText("ORA-00900")
    /\ \E i \in 1..Len(executed_results) :
          /\ executed_results[i].function = "validate_sql"
          /\ executed_results[i].result.t = "json_validation"
    /\ \A i \in 1..Len(provider_calls) : provider_calls[i].name # "execute_sql"

\* C2: when the latest validate_sql result is {valid: true, sql: S}, the
\* execute_sql step calls the provider's execute_sql with exec_sql = S,
\* whatever the planner wrote as exec_sql (in particular for the plan
\* get_schema_info, generate_sql, validate_sql, execute_sql).
C2_ExecutesTheValidatedSql ==
    [][ (AtExecuteSql /\ Validated /\ memory["validate_sql"].valid)
        => /\ Len(provider_calls') = Len(provider_calls) + 1
           /\ SubSeq(provider_calls', 1, Len(provider_calls)) = provider_calls
           /\ provider_calls'[Len(provider_calls')].name = "execute_sql"
           /\ provider_calls'[Len(provider_calls')].args.exec_sql =
                 memory["validate_sql"].sql ]_vars

\* The four-step plan has run, the planner had written its own exec_sql, and
\* execute_sql was called with the SQL that generate_sql produced and
\* validate_sql accepted.
C2_Witness ==
    /\ pc = "execute_tools"
    /\ Len(state.tool_calls) = 4
    /\ call_idx = 5
    /\ [i \in 1..4 |-> executed_results[i].function] = SqlTools
    /\ memory["validate_sql"] =
          ValidationJson(TRUE, "SQL valid", Str("SELECT COUNT(*) FROM X"))
    /\ provider_calls[Len(provider_calls)].name = "execute_sql"
    /\ provider_calls[Len(provider_calls)].args.exec_sql = Str("SELECT COUNT(*) FROM X")
    /\ PlannerSql # Str("SELECT COUNT(*) FROM X")

\* C3: run_query never raises: whatever the planner answers and whatever the
\* tools return, no exception of the plan, execute or answer step leaves the
\* run.
C3_RunNeverRaises == pc # "raised"

\* C4: when validate_sql reported the SQL invalid and the executor has
\* recorded the rejection in the results log, the run goes on through the
\* answer generator to a final answer; it does not raise.
C4_InvalidSqlStillAnswered ==
    (\E i \in 1..Len(state.executed_results) :
        state.executed_results[i].result = RejectionText("ORA-00900"))
    => /\ pc # "raised"
       /\ pc = "returned" => "generate_answer" \in Range(visited)

\* C5: a timeout or error marker returned for a tool, validate_sql before an
\* execute_sql included, is recorded as the step's result and the executor
\* processes the remaining invocations without raising on it.
C5_MarkerDoesNotStopExecutor ==
    ~ /\ pc = "raised"
      /\ raised = Exception("JSONDecodeError", "execute_tools")
      /\ \E i \in 1..Len(executed_results) :
            IsTimeoutOrErrorMarker(executed_results[i].result)

\* C6: in every state of the wrapper, execute_tool with a name that matches
\* no loaded descriptor ends by returning a failure string, never by raising.
C6_UnknownToolNeverRaises ==
    \A c \in Callers :
        (caller[c].op = "execute_tool" /\ caller[c].tool = UnknownTool
            /\ caller[c].status # "waiting")
        => (caller[c].status = "returned" /\ IsMarker(caller[c].result))

\* C7: in plan_tools_node, a cleaned response that is not valid JSON leaves
\* tool_calls the empty list and final_answer the cleaned response itself,
\* and the run then ends with neither execute_tools nor generate_answer
\* having run.
C7_PlannerFallback ==
    [][ /\ (pc = "plan_tools_parse" /\ ~IsValidJson(cleaned_response))
           => /\ ~state'.tool_calls_is_none
              /\ state'.tool_calls = <<>>
              /\ state'.final_answer = cleaned_response
              /\ pc' = "save_assistant"
        /\ (pc = "save_assistant" /\ state.tool_calls = <<>>)
           => /\ pc' = "returned"
              /\ visited' = <<"plan_tools">>
              /\ llm_requests' = <<"plan_tools">>
              /\ \A i \in 1..Len(provider_calls') :
                    provider_calls'[i].via = "run_query" ]_vars

\* A run has returned the planner's prose as its answer, having run
\* plan_tools only.
C7_Witness ==
    /\ pc = "returned"
    /\ state.tool_calls = <<>>
    /\ state.final_answer = <<Prose("direct answer"), Ws, JsonTok(JsonList(<<>>))>>
    /\ visited = <<"plan_tools">>

IsSave(call, role, content, session_id) ==
    /\ call.name = "save_message"
    /\ call.via = "run_query"
    /\ call.args = SaveMessageArgs(role, content, session_id)

\* C8: every run_query issues save_message(user, question) before the
\* planner runs and save_message(assistant, final answer) after the answer;
\* a run that has ended has persisted an answer for the session of its
\* question.
C8_QuestionAndAnswerPersisted ==
    /\ pc # "idle"
       => IsSave(provider_calls[1], "user", state.question, state.session_id)
    /\ pc \in {"returned", "raised"}
       => IsSave(provider_calls[Len(provider_calls)], "assistant",
                 Text(state.final_answer), state.session_id)

\* C9: over the lifetime of one wrapper no provider's session is opened a
\* second time, however many initialize() calls are made and however they
\* interleave.
C9_SessionsOpenedOnce == \A s \in ServerSet : opens[s] <= 1

\* C10: at most one function runs on the executor at any instant, and every
\* execute_tool body runs on the event loop that opened the session of the
\* tool it calls.
C10_OneToolCallOnTheSessionLoop ==
    /\ Cardinality(running) <= 1
    /\ \A w \in running :
          (w.kind = "exec" /\ w.tool_loop # 0) => w.tool_loop = w.on_loop

\* C11: initialize() is idempotent: a call made once the wrapper is marked
\* initialized returns at once and leaves the event loop, the provider
\* sessions, the descriptor list and the executor's queue as they were; it
\* opens no session and submits nothing.
C11_InitializeIdempotent ==
    [][ \A c \in Callers :
          (initialized /\ Free(c) /\ caller'[c] # caller[c]
              /\ caller'[c].op = "initialize")
          => /\ caller'[c].status = "returned"
             /\ UNCHANGED <<loop, closed_loops, server_sessions, all_tools, opens,
                            work_queue, running, inits_submitted>> ]_vars

\* Every caller has returned from initialize() and _init_in_thread was
\* submitted once only: the later calls returned at line 44.
C11_Witness ==
    /\ initialized
    /\ inits_submitted = 1
    /\ \A c \in Callers :
          caller[c].op = "initialize" /\ caller[c].status = "returned"
    /\ \A s \in ServerSet : opens[s] = 1

\* The tools of a server are all in the descriptor list.
HoldsToolsOf(server) ==
    \A n \in Range(ToolsOf(server)) :
        \E i \in 1..Len(all_tools) :
            all_tools[i].name = n /\ all_tools[i].server = server

\* C12: once the wrapper is marked initialized, every configured provider
\* has a session and the descriptor list holds every provider's tools.
C12_InitializedHasEveryProvider ==
    initialized => \A s \in ServerSet : server_sessions[s] # 0 /\ HoldsToolsOf(s)

\* C13: cleanup() never raises, whatever state the wrapper is in, and once
\* it has returned the session map and the descriptor list are empty.
C13_CleanupSafeAndEmpties ==
    \A c \in Callers :
        (caller[c].op = "cleanup" /\ caller[c].status # "waiting")
        => /\ caller[c].status = "returned"
           /\ \A s \in ServerSet : server_sessions[s] = 0
           /\ all_tools = <<>>

\* The provider has just handled a request for the tool op.
Handles(op) == now' = now + 1 /\ last_call'.op = op

\* C14: save_message(s, r, c) followed by get_messages(s) returns a success
\* result whose data list ends with a message of role r and content c,
\* whatever the session held before and whatever limit is given.
C14_SaveThenGetRoundTrip ==
    [][ (/\ last_call.op = "save_message"
         /\ last_call.message_id = Absent
         /\ Handles("get_messages")
         /\ last_call'.session_id = last_call.session_id)
        => /\ last_result'.success
           /\ Len(last_result'.data) > 0
           /\ last_result'.data[Len(last_result'.data)].role = last_call.role
           /\ last_result'.data[Len(last_result'.data)].content = last_call.content ]_vars

\* get_messages with the default limit has answered right after a
\* save_message of an assistant's "SQL" to a session that already held a
\* message, and the data list ends with that message.
C14_Witness ==
    /\ last_call.op = "get_messages"
    /\ last_call.limit = Int(DefaultLimit)
    /\ last_result.success
    /\ Len(last_result.data) = 2
    /\ last_result.data[2].timestamp + 1 = now
    /\ last_result.data[2].role = "assistant"
    /\ last_result.data[2].content = TextSql
    /\ last_result.data[1].content = TextHi

\* C15: save_message appends exactly one message to the session, with or
\* without a message_id argument; without one the stored message_id is
\* {session_id}_{n}, n the number of messages the session held before.
C15_SaveAppendsExactlyOne ==
    [][ Handles("save_message")
        => LET s == last_call'.session_id
               n == Len(SessionList(s))
           IN /\ s \in DOMAIN memory_storage'
              /\ Len(memory_storage'[s]) = n + 1
              /\ SubSeq(memory_storage'[s], 1, n) = SessionList(s)
              /\ last_call'.message_id = Absent
                 => memory_storage'[s][n + 1].message_id = GeneratedMessageId(s, n) ]_vars

\* C16: get_messages(session, limit = k) on a session that holds N
\* messages, 0 <= k < N, returns exactly the k most recently saved messages
\* in insertion order.
C16_GetReturnsTheLastK ==
    [][ (/\ Handles("get_messages")
         /\ last_call'.limit.t = "int"
         /\ last_call'.limit.n < Len(SessionList(last_call'.session_id)))
        => LET messages == SessionList(last_call'.session_id)
               k == last_call'.limit.n
           IN /\ last_result'.success
              /\ last_result'.data =
                    AsDicts(SubSeq(messages, Len(messages) - k + 1, Len(messages))) ]_vars

\* C17: search_messages(session, keyword, limit) returns success and exactly
\* the last `limit` messages of the session whose content contains the
\* keyword whatever the case of letters, in insertion order; with no match
\* the data list is empty.
C17_SearchReturnsTheLastMatches ==
    [][ (Handles("search_messages") /\ last_call'.limit.t = "int")
        => LET matching == SelectSeq(SessionList(last_call'.session_id),
                              LAMBDA msg : Contains(Lower(last_call'.keyword),
                                                    Lower(msg.content)))
               k == last_call'.limit.n
           IN /\ last_result'.success
              /\ last_result'.data =
                    IF k >= Len(matching) THEN AsDicts(matching)
                    ELSE AsDicts(SubSeq(matching, Len(matching) - k + 1, Len(matching))) ]_vars

\* C18: conversation memory is append-only per session: in every step each
\* session's list stays a prefix of its next list, and a request for one
\* session leaves the list of every other session as it was.
C18_MemoryIsAppendOnly ==
    [][ /\ \A s \in DOMAIN memory_storage :
              /\ s \in DOMAIN memory_storage'
              /\ Len(memory_storage'[s]) >= Len(memory_storage[s])
              /\ SubSeq(memory_storage'[s], 1, Len(memory_storage[s])) = memory_storage[s]
        /\ \A s \in MemorySessions :
              s # last_call'.session_id
              => /\ (s \in DOMAIN memory_storage') = (s \in DOMAIN memory_storage)
                 /\ s \in DOMAIN memory_storage => memory_storage'[s] = memory_storage[s] ]_vars

\* Session s1 holds two messages and session s2 one that was saved between
\* them: each save extended one list and left the other alone.
C18_Witness ==
    /\ DOMAIN memory_storage = {"s1", "s2"}
    /\ Len(memory_storage["s1"]) = 2
    /\ Len(memory_storage["s2"]) = 1
    /\ memory_storage["s1"][1].timestamp < memory_storage["s2"][1].timestamp
    /\ memory_storage["s2"][1].timestamp < memory_storage["s1"][2].timestamp
    /\ memory_storage["s1"][1].content # memory_storage["s1"][2].content

\* C19: within one execute_tools_node run the provider's execute_sql is
\* called only when the latest validate_sql result of that run has valid =
\* true; in every other case (no validate_sql before, no valid field, valid
\* not true) the execute_sql step is recorded as rejected and calls no tool.
C19_ExecuteSqlNeedsAcceptedValidation ==
    [][ /\ (/\ Len(provider_calls') = Len(provider_calls) + 1
            /\ provider_calls'[Len(provider_calls')].name = "execute_sql")
           => (Validated /\ memory["validate_sql"].valid)
        /\ (AtExecuteSql /\ ~(Validated /\ memory["validate_sql"].valid))
           => /\ Len(executed_results') = Len(executed_results) + 1
              /\ executed_results'[Len(executed_results')].function = "execute_sql"
              /\ executed_results'[Len(executed_results')].result.t = "rejection"
              /\ provider_calls' = provider_calls ]_vars

\* The invocations the loop has gone through that carry a function name.
NamedCallsDone ==
    SelectSeq(SubSeq(state.tool_calls, 1, call_idx - 1), LAMBDA call : FnName(call) # "")

\* C20: the results log holds one record per planned invocation that has a
\* function name, in plan order; an invocation without a name adds no record
\* and calls no tool, so the log is never longer than the plan; and the
\* tools are called one per iteration, each call logged in the same step.
C20_LogMirrorsPlan ==
    [][ /\ pc' = "execute_tools"
           => (LET named == NamedCallsDone'
               IN /\ Len(executed_results') = Len(named)
                  /\ \A i \in 1..Len(named) :
                        executed_results'[i].function = FnName(named[i])
                  /\ Len(executed_results') <= Len(state'.tool_calls))
        /\ (pc = "execute_tools" /\ pc' = "generate_answer")
           => /\ call_idx = Len(state.tool_calls) + 1
              /\ state'.executed_results = executed_results
        /\ (pc = "execute_tools" /\ provider_calls' # provider_calls)
           => /\ Len(provider_calls') = Len(provider_calls) + 1
              /\ Len(executed_results') = Len(executed_results) + 1
              /\ call_idx' = call_idx + 1
              /\ provider_calls'[Len(provider_calls')].name =
                    executed_results'[Len(executed_results')].function
              /\ provider_calls'[Len(provider_calls')].args =
                    executed_results'[Len(executed_results')].arguments
              /\ provider_calls'[Len(provider_calls')].name =
                    FnName(state.tool_calls[call_idx]) ]_vars

\* The loop has gone through a plan of two invocations of which the first
\* has no function name: one record, for the second.
C20_Witness ==
    /\ pc = "execute_tools"
    /\ Len(state.tool_calls) = 2
    /\ call_idx = 3
    /\ FnName(state.tool_calls[1]) = ""
    /\ Len(executed_results) = 1
    /\ executed_results[1].function = FnName(state.tool_calls[2])
    /\ Len(provider_calls) = 2

\* A tool call by execute_tools_node for the tool fn_name reaches a provider
\* in this step.
Dispatches(fn_name) ==
    /\ pc = "execute_tools"
    /\ Len(provider_calls') = Len(provider_calls) + 1
    /\ provider_calls'[Len(provider_calls')].name = fn_name

\* C21: every generate_sql call reaches the provider with natural_query =
\* the question of the run and schema_info = the latest get_schema_info
\* result of this run ({} if none ran); every validate_sql call reaches it
\* with sql = the latest generate_sql result of this run ("" if none ran);
\* what the planner wrote for these arguments is never used.
C21_ChainedArgsComeFromTheRun ==
    [][ /\ Dispatches("generate_sql")
           => /\ provider_calls'[Len(provider_calls')].args.natural_query = state.question
              /\ provider_calls'[Len(provider_calls')].args.schema_info =
                    IF memory["get_schema_info"] = Absent THEN EmptyMapping
                    ELSE memory["get_schema_info"]
        /\ Dispatches("validate_sql")
           => provider_calls'[Len(provider_calls')].args.sql =
                 IF memory["generate_sql"] = Absent THEN EmptyStr
                 ELSE memory["generate_sql"] ]_vars

\* The planner wrote its own natural_query, schema_info and sql; generate_sql
\* was called with the question and the schema that get_schema_info had
\* returned, and validate_sql with the SQL that generate_sql had returned.
C21_Witness ==
    /\ \E i \in 1..Len(provider_calls) :
          /\ provider_calls[i].name = "generate_sql"
          /\ provider_calls[i].args.natural_query = state.question
          /\ provider_calls[i].args.natural_query # Str("...")
          /\ provider_calls[i].args.schema_info = SchemaJson
    /\ \E i \in 1..Len(provider_calls) :
          /\ provider_calls[i].name = "validate_sql"
          /\ provider_calls[i].args.sql = Str("SELECT COUNT(*) FROM X")

\* The records of the results log that stem from a tool call for fn_name
\* (a rejected execute_sql step was not dispatched).
DispatchedRecords(fn_name) ==
    {i \in 1..Len(executed_results) :
        /\ executed_results[i].function = fn_name
        /\ executed_results[i].result.t # "rejection"}

\* C22: at every step of the executor the lookup entry of a function name
\* is the result of the latest invocation of that name dispatched in this
\* run, and is missing when none was; a rejected execute_sql step and a
\* nameless invocation leave the table as it is; each run starts with an
\* empty table.
C22_LookupHoldsTheLatestResult ==
    [][ /\ pc' = "execute_tools"
           => \A fn_name \in DOMAIN memory' :
                 LET done == DispatchedRecords(fn_name)'
                 IN IF done = {} THEN memory'[fn_name] = Absent
                    ELSE \E last \in done :
                            /\ \A i \in done : i <= last
                            /\ executed_results'[last].result = PyStr(memory'[fn_name])
        /\ (pc = "execute_tools" /\ pc' = "execute_tools"
              /\ Len(executed_results') = Len(executed_results) + 1
              /\ executed_results'[Len(executed_results')].result.t = "rejection")
           => memory' = memory
        /\ (pc = "execute_tools" /\ pc' = "execute_tools"
              /\ executed_results' = executed_results)
           => memory' = memory
        /\ (pc # "execute_tools" /\ pc' = "execute_tools")
           => memory' = EmptyMemory ]_vars

\* validate_sql has run twice with different results and a rejected
\* execute_sql step lies between them: the table holds the second validation
\* and nothing for execute_sql.
C22_Witness ==
    /\ pc = "execute_tools"
    /\ Len(executed_results) = 3
    /\ executed_results[1].function = "validate_sql"
    /\ executed_results[1].result = ValidationJson(FALSE, "ORA-00900", EmptyStr)
    /\ executed_results[2].result = RejectionText("ORA-00900")
    /\ executed_results[3].function = "validate_sql"
    /\ executed_results[3].result.t = "json_validation"
    /\ executed_results[3].result.valid
    /\ memory["validate_sql"] = executed_results[3].result
    /\ memory["execute_sql"] = Absent

\* The iteration at hand is an invocation whose function name matches no
\* loaded descriptor.
AtUnregisteredTool ==
    /\ InLoop
    /\ state.tool_calls[call_idx].j = "dict"
    /\ FnName(state.tool_calls[call_idx]) # ""
    /\ FindTool(all_tools, FnName(state.tool_calls[call_idx])) = 0

\* C23: an invocation whose function name matches no registered descriptor
\* calls no provider operation, and the executor goes on to the remaining
\* invocations as if it had not been in the plan: the step raises nothing
\* and leaves untouched every lookup entry that a later step chains from.
C23_UnregisteredToolIsNoOp ==
    [][ AtUnregisteredTool
        => /\ provider_calls' = provider_calls
           /\ pc' = "execute_tools"
           /\ \A key \in {"get_schema_info", "generate_sql", "validate_sql"} :
                 memory'[key] = memory[key] ]_vars

\* C24: no retry within one run_query: the planner sends exactly one
\* language-model request; the answer generator runs only after a non-empty
\* plan and sends exactly one request when the results log is non-empty and
\* none when it is empty, setting the fixed cannot-answer message; so a run
\* sends one or two requests.
C24_OneOrTwoRequests ==
    /\ Len(llm_requests) <= 2
    /\ pc \notin {"idle", "plan_tools"}
       => /\ Len(llm_requests) >= 1
          /\ llm_requests[1] = "plan_tools"
    /\ \A i \in 2..Len(llm_requests) : llm_requests[i] = "generate_answer"
    /\ "generate_answer" \in Range(visited)
       => /\ ~state.tool_calls_is_none
          /\ state.tool_calls # <<>>
          /\ Len(llm_requests) = IF state.executed_results = <<>> THEN 1 ELSE 2
          /\ state.executed_results = <<>> => state.final_answer = CannotAnswer

\* C25: every execute_tool call that an initialized wrapper has accepted
\* eventually returns to its caller (with the tool's result or a marker),
\* even when the provider never responds and other functions are queued
\* ahead of it on the single worker.
C25_ExecuteToolReturns ==
    \A c \in Callers :
        (caller[c].op = "execute_tool" /\ caller[c].status = "waiting")
        ~> (caller[c].op = "execute_tool" /\ caller[c].status = "returned")

\* A call of one of the three memory tools by execute_tools_node reaches the
\* provider in this step.
DispatchesMemoryTool == \E fn_name \in Range(MemoryTools) : Dispatches(fn_name)

\* C26 as claimed: every memory tool call dispatched during a run for
\* session s carries session_id = s, whatever the planner wrote.
C26_SessionConfinement ==
    [][ DispatchesMemoryTool
        => provider_calls'[Len(provider_calls')].args.session_id = state.session_id ]_vars

\* C26 amended: a memory tool call dispatched during a run for session s
\* carries session_id = s when the planner's arguments hold no session_id,
\* and the session_id the planner wrote when they hold one.
C26_SessionInjectedWhenAbsent ==
    [][ DispatchesMemoryTool
        => LET planned == ArgsOf(state.tool_calls[call_idx]).session_id
           IN provider_calls'[Len(provider_calls')].args.session_id =
                 IF planned = Absent THEN state.session_id ELSE planned ]_vars

\* In a run for session "s1" a get_messages that the planner wrote without
\* session_id has reached the provider with session_id "s1".
C26_Witness ==
    /\ state.session_id = Str("s1")
    /\ \E i \in 1..Len(provider_calls) :
          /\ provider_calls[i].name = "get_messages"
          /\ provider_calls[i].via = "execute_tools"
          /\ provider_calls[i].args.session_id = Str("s1")
    /\ \E i \in 1..Len(state.tool_calls) :
          state.tool_calls[i] =
             Invocation("get_messages", "", "", [NoArgs EXCEPT !.session_id = Str("s1")])

\* What the provider answers to a request on a given store, at a given
\* reading of the clock.
Respond(storage, call, timestamp) ==
    CASE call.op = "save_message" ->
            SaveResult(storage, call.session_id, call.role, call.content,
                       call.message_id, timestamp)
      [] call.op = "get_messages" -> GetResult(storage, call.session_id, call.limit)
      [] call.op = "search_messages" ->
            SearchResult(storage, call.session_id, call.keyword, call.limit)

\* The store that agrees with storage on session_id and holds no other
\* session.
OnlySession(storage, session_id) ==
    [s \in DOMAIN storage \cap {session_id} |-> storage[s]]

\* C27: the value a memory tool returns for session s depends only on the
\* messages stored under s: the store at hand and the store that agrees
\* with it on s and holds nothing else give the same response to the same
\* request.
C27_ResponseDependsOnOwnSession ==
    [][ now' = now + 1
        => last_result' =
              Respond(OnlySession(memory_storage, last_call'.session_id), last_call', now')
      ]_vars

\* C28: execute_sql never gives the database a statement other than a SELECT
\* to run: every statement the database has run for it is a SELECT, and so
\* after a request with any other statement the database has run nothing.
C28_OnlySelectIsExecuted ==
    \A i \in 1..Len(db_executed) : db_executed[i].kind = "select"

\* C29: every connection opened by a SQL tool request is closed by the time
\* that request has returned, so when no request is being handled the
\* number of open connections is zero.
C29_NoConnectionStaysOpen ==
    open_connections = 0

\* C30: every run_query that returns yields a non-empty answer: whatever the
\* planner's reply was, the final_answer of a returned run is not the empty
\* text.
C30_ReturnedAnswerIsNotEmpty ==
    pc = "returned" => state.final_answer # <<>>

====
